---------------------------- MODULE Spec2Model ----------------------------
(***************************************************************************)
(* Model of monitor.py: the STAR-CCM+ log parser parse_starccm_logfile and  *)
(* the polling loop monitor_simulation with the image part of plot_data.   *)
(*                                                                         *)
(* A stripped log line is a record [toks, gaps]: its whitespace-free       *)
(* tokens and, between consecutive tokens, the width of the whitespace run *)
(* (1 = one blank, 2 = two or more).  A float is represented by Python's   *)
(* repr of it ("0.001", "1.0", "nan"), so float() is not the identity.     *)
(***************************************************************************)
EXTENDS Integers, Sequences, FiniteSets

\* Number of lines read from a log whose content is left open (Spec).
MaxLines == 5
\* Length of a log fixed in advance (SpecFile).
MaxFileLen == 4

(***************************************************************************)
(* Library functions on tokens, tabulated over the tokens the model uses.  *)
(***************************************************************************)

\* float('nan')
NaN == "nan"

\* Marks a ValueError raised by float() or int().
ValueError == "ValueError"

\* str.isdigit(): every character is a digit.  "SUP2" stands for the one
\* character U+00B2 (superscript two), a digit for isdigit() and not for int().
IsDigit(tok) == tok \in {"1", "2", "3", "4", "5", "6", "SUP2"}

\* line[0].isdigit(): the first character of the token is a digit.
FirstCharIsDigit(tok) ==
    tok \in {"1", "2", "3", "4", "5", "6", "SUP2", "1:", "2:", "3:",
             "0.5", "1.5", "1.0", "2.0", "1.0e-3", "2.0e-3", "1e-"}

\* int(tok) raises ValueError.
IntRaises(tok) == tok \notin {"1", "2", "3", "4", "5", "6"}

\* int(tok), when it does not raise.
IntOf(tok) ==
    CASE tok = "1" -> 1 [] tok = "2" -> 2 [] tok = "3" -> 3
      [] tok = "4" -> 4 [] tok = "5" -> 5 [] tok = "6" -> 6

\* float(tok), as the repr of the float.
FloatOf(tok) ==
    CASE tok = "1.0e-3" -> "0.001"
      [] tok = "2.0e-3" -> "0.002"
      [] tok = "0.5" -> "0.5"
      [] tok = "1.5" -> "1.5"
      [] tok = "1.0" -> "1.0"
      [] tok = "2.0" -> "2.0"
      [] tok \in {"1", "2", "3", "4", "5", "6"} -> tok \o ".0"
      [] OTHER -> ValueError

\* The regex piece \d+: followed by whitespace: digits and a colon.
IsStepNumber(tok) == tok \in {"1:", "2:", "3:"}

\* The regex group ([\d.eE+-]+) matched at the start of a token: the longest
\* prefix made of those characters, "" when there is none.
TimeGroup(tok) ==
    CASE tok \in {"0.5", "1.5", "1.0", "2.0", "1e-", "1.0e-3", "2.0e-3", "---",
                  "1", "2", "3", "4", "5", "6"} -> tok
      [] tok = "1:" -> "1"
      [] tok = "2:" -> "2"
      [] tok = "3:" -> "3"
      [] OTHER -> ""

\* name in tok, for a name without whitespace.
InToken(name, tok) == name = tok \/ <<name, tok>> \in {<<"Drag", "DragCoeff">>}

(***************************************************************************)
(* Lines.                                                                  *)
(***************************************************************************)

\* A line whose tokens are separated by one blank each.
Single(toks) == [toks |-> toks, gaps |-> [i \in 1..(Len(toks) - 1) |-> 1]]

\* A line whose tokens are separated by two blanks each.
Double(toks) == [toks |-> toks, gaps |-> [i \in 1..(Len(toks) - 1) |-> 2]]

Blank == Single(<<>>)

\* not line
IsBlank(l) == l.toks = <<>>

\* re.split(r'\s+', line.strip())
SplitWhitespace(l) == l.toks

RECURSIVE CellsFrom(_, _, _, _)
CellsFrom(l, i, cur, acc) ==
    IF i > Len(l.toks) THEN Append(acc, cur)
    ELSE IF l.gaps[i - 1] >= 2
         THEN CellsFrom(l, i + 1, l.toks[i], Append(acc, cur))
         ELSE CellsFrom(l, i + 1, cur \o " " \o l.toks[i], acc)

\* Mutant of SplitColumns: the header is split on any whitespace run.
SplitColumns_AnyWhitespace(l) == l.toks

\* [h.strip() for h in re.split(r'\s{2,}', line) if h.strip()]
SplitColumns(l) ==
    IF IsBlank(l) THEN <<>> ELSE CellsFrom(l, 2, l.toks[1], <<>>)

\* name in line, for a name without whitespace.
InLine(name, l) == \E i \in 1..Len(l.toks) : InToken(name, l.toks[i])


(***************************************************************************)
(* Parser state: the locals of parse_starccm_logfile.  A dict is a         *)
(* sequence of [name, col] entries in insertion order; columns are 0-based *)
(* as in the source.                                                       *)
(***************************************************************************)

VARIABLES
    colunas,                 \* colunas_relatorios_especificadas (argument)
    file,                    \* the lines of the log when fixed in advance
    pos,                     \* number of lines read so far
    line,                    \* the line being processed (stripped)
    pc,                      \* "idle", "open", "scan", "done" or "error"
    iterations,
    report_times,
    report_iterations,
    residuals_data,
    reports_data,
    residual_headers_map,
    report_headers_map,
    current_time,
    header_line_found,
    iteration_data_started,
    call,                    \* which call of the parser is running (1 or 2)
    first_result,            \* what the first of two calls returned
    mpc,                     \* position in monitor_simulation
    error,                   \* the exception in flight in the cycle's try
    ssh_client,
    sftp_client,
    password,
    use_key_auth,
    interval_seconds,
    image,                   \* position in plot_data's loop over the scenes
    temp_files               \* the temporary local copies that exist

outputs == <<iterations, residuals_data, report_iterations, report_times,
             reports_data>>

scan_state == <<residual_headers_map, report_headers_map, current_time,
                header_line_found, iteration_data_started>>

\* The caller's record of an earlier call of the parser.
caller == <<call, first_result>>

\* The state of monitor_simulation and of the local directory.
session == <<mpc, error, ssh_client, sftp_client, password, use_key_auth,
             interval_seconds, image, temp_files>>

vars == <<colunas, file, pos, line, pc, outputs, scan_state, caller, session>>

\* list(residuals_data.keys())
expected_residual_cols ==
    <<"Continuity", "X-momentum", "Y-momentum", "Z-momentum", "Tke", "Sdr",
      "Intermittency">>

ResidualFields == {expected_residual_cols[i] : i \in 1..Len(expected_residual_cols)}

\* The elements of a list.
Range(seq) == {seq[i] : i \in 1..Len(seq)}

\* key in d
HasKey(d, key) == \E i \in 1..Len(d) : d[i].name = key

\* d[key]
Lookup(d, key) == d[CHOOSE i \in 1..Len(d) : d[i].name = key].col

\* d[key] = col: a present key keeps its place, a new key goes last.
DictSet(d, key, col) ==
    IF HasKey(d, key)
    THEN [i \in 1..Len(d) |-> IF d[i].name = key THEN [name |-> key, col |-> col]
                                                  ELSE d[i]]
    ELSE Append(d, [name |-> key, col |-> col])

\* timestep_regex.match(line): the captured group, "" when there is no match.
TimeMatch(l) ==
    IF /\ Len(l.toks) >= 4
       /\ l.toks[1] = "TimeStep"
       /\ IsStepNumber(l.toks[2])
       /\ l.toks[3] = "Time"
    THEN TimeGroup(l.toks[4])
    ELSE ""

\* The condition of the header branch.  No token of the model other than
\* "Iteration" itself starts with "Iteration".
IsHeader(l, wanted) ==
    /\ ~IsBlank(l)
    /\ l.toks[1] = "Iteration"
    /\ InLine("Continuity", l)
    /\ (wanted = <<>> \/ \E c \in Range(wanted) : InLine(c, l))

RECURSIVE ResidualMapFrom(_, _, _)
ResidualMapFrom(cells, i, acc) ==
    IF i > Len(cells) THEN acc
    ELSE ResidualMapFrom(cells, i + 1,
            IF cells[i] \in ResidualFields THEN DictSet(acc, cells[i], i - 1)
                                           ELSE acc)

\* temp_residual_map of the header's columns.
TempResidualMap(cells) == ResidualMapFrom(cells, 1, <<>>)

RECURSIVE ReportMapFrom(_, _, _, _)
ReportMapFrom(cells, wanted, i, acc) ==
    IF i > Len(cells) THEN acc
    ELSE ReportMapFrom(cells, wanted, i + 1,
            IF cells[i] \notin ResidualFields /\ cells[i] \in Range(wanted)
            THEN DictSet(acc, cells[i], i - 1)
            ELSE acc)

\* temp_report_map of the header's columns.
TempReportMap(cells, wanted) == ReportMapFrom(cells, wanted, 1, <<>>)

\* The condition of the data-row branch on the line itself.
LooksLikeRow(l) == ~IsBlank(l) /\ FirstCharIsDigit(l.toks[1])

\* Mutant of CellValue: the column index is not checked against the row, so
\* a column beyond the row raises (IndexError, caught like ValueError).
CellValue_Unguarded(values, col) ==
    IF col < Len(values) THEN FloatOf(values[col + 1]) ELSE ValueError

\* float(values_str[col_idx]) if col_idx < len(values_str) else float('nan')
CellValue(values, col) ==
    IF col < Len(values) THEN FloatOf(values[col + 1]) ELSE NaN

\* for name, col_idx in hmap.items(): data[name].append(...), from entry k on,
\* stopping at the first ValueError.
RECURSIVE AppendColumns(_, _, _, _)
AppendColumns(data, hmap, values, k) ==
    IF k > Len(hmap) THEN [data |-> data, raised |-> FALSE]
    ELSE LET v == CellValue(values, hmap[k].col)
         IN  IF v = ValueError
             THEN [data |-> data, raised |-> TRUE]
             ELSE AppendColumns([data EXCEPT ![hmap[k].name] = Append(@, v)],
                                hmap, values, k + 1)

\* The loop over residual_headers_map.items().
ResidualLoop(res, hmap, values) == AppendColumns(res, hmap, values, 1)

\* The loop over report_headers_map.items().
ReportLoop(rep, hmap, values) == AppendColumns(rep, hmap, values, 1)

\* The except (ValueError, IndexError) clause of a data row.
ExceptHandler(its, res) ==
    IF /\ its # <<>>
       /\ \/ res[expected_residual_cols[1]] = <<>>
          \/ Len(its) > Len(res[expected_residual_cols[1]])
    THEN [f \in ResidualFields |->
            IF Len(res[f]) < Len(its) THEN Append(res[f], NaN) ELSE res[f]]
    ELSE res

\* Mutant of HasReportSample: the placeholder "---" is not excluded.
HasReportSample_NoPlaceholder(wanted, hmap, values) ==
    /\ wanted # <<>>
    /\ HasKey(hmap, wanted[1])
    /\ Lookup(hmap, wanted[1]) < Len(values)

\* The condition under which a row yields a report sample.
HasReportSample(wanted, hmap, values) ==
    /\ wanted # <<>>
    /\ HasKey(hmap, wanted[1])
    /\ Lookup(hmap, wanted[1]) < Len(values)
    /\ values[Lookup(hmap, wanted[1]) + 1] \notin {"---", ""}

RECURSIVE PadTo(_, _)
PadTo(seq, n) == IF Len(seq) < n THEN PadTo(Append(seq, NaN), n) ELSE seq

\* Mutant of FinalPad: the residual sequences are returned as they are.
FinalPad_NoPad(its, res) == res

\* The padding and truncation after the scan.
FinalPad(its, res) ==
    IF its # <<>>
    THEN [f \in DOMAIN res |-> SubSeq(PadTo(res[f], Len(its)), 1, Len(its))]
    ELSE res

EmptyDict == [f \in {} |-> <<>>]


(***************************************************************************)
(* Inputs.                                                                 *)
(***************************************************************************)

MarkerA == Single(<<"TimeStep", "1:", "Time", "0.5">>)
MarkerB == Single(<<"TimeStep", "2:", "Time", "1.5">>)
\* A marker whose captured time text is a truncated exponent.
MarkerBad == Single(<<"TimeStep", "3:", "Time", "1e-">>)

\* "Iteration Continuity X-momentum", one blank between the names.
HeaderSingle == Single(<<"Iteration", "Continuity", "X-momentum">>)
HeaderRes == Double(<<"Iteration", "Continuity", "X-momentum">>)
HeaderFull == Double(<<"Iteration", "Continuity", "X-momentum", "Drag", "Lift">>)
\* Other residual fields, in another order, and one report column.
HeaderAlt == Double(<<"Iteration", "Tke", "Continuity", "Drag">>)

\* "1  1.0e-3  2.0e-3"
RowA == Double(<<"1", "1.0e-3", "2.0e-3">>)
RowFull == Single(<<"2", "1.0e-3", "2.0e-3", "0.5", "1.5">>)
RowGated == Single(<<"3", "2.0e-3", "1.0e-3", "---", "---">>)
RowBadFirst == Single(<<"4", "abc", "2.0e-3", "0.5", "1.5">>)
RowBadSecond == Single(<<"4", "2.0e-3", "abc", "0.5", "1.5">>)
RowShort == Single(<<"5", "1.0e-3">>)
RowBadReport == Single(<<"6", "1.0e-3", "2.0e-3", "0.5", "abc">>)
Noise == Single(<<"abc", "1.0", "2.0">>)
RowFraction == Single(<<"1.5", "1.0e-3">>)
RowSuperscript == Single(<<"SUP2", "1.0e-3">>)

\* "Iteration Continuity  Drag  Lift": the first two names are one column,
\* so no column is a residual field.
HeaderReportsOnly ==
    [toks |-> <<"Iteration", "Continuity", "Drag", "Lift">>,
     gaps |-> <<1, 2, 2>>]

\* "Iteration  Continuity  DragCoeff": "Drag" occurs in the line and is not
\* a column.
HeaderCoeff == Double(<<"Iteration", "Continuity", "DragCoeff">>)

Lines ==
    {Blank, MarkerA, MarkerB, MarkerBad, HeaderSingle, HeaderRes, HeaderFull,
     HeaderAlt, RowA, RowFull, RowGated, RowBadFirst, RowBadSecond, RowShort,
     RowBadReport, Noise, RowFraction, RowSuperscript}

\* The requested report fields.
Wanted == {<<>>, <<"Drag", "Lift">>, <<"Lift", "Drag">>}

(***************************************************************************)
(* Actions.                                                                *)
(***************************************************************************)

\* The locals before the file is opened.
InitLocals ==
    /\ pos = 0
    /\ line = Blank
    /\ pc = "open"
    /\ iterations = <<>>
    /\ report_times = <<>>
    /\ report_iterations = <<>>
    /\ residuals_data = [f \in ResidualFields |-> <<>>]
    /\ reports_data = [f \in Range(colunas) |-> <<>>]
    /\ residual_headers_map = <<>>
    /\ report_headers_map = <<>>
    /\ current_time = "0.0"
    /\ header_line_found = FALSE
    /\ iteration_data_started = FALSE

\* A single call: there is no earlier call on record.
OneCall ==
    /\ call = 1
    /\ first_result = <<>>

\* The parser called on its own, outside monitor_simulation.
NoSession ==
    /\ mpc = "none"
    /\ error = "none"
    /\ ssh_client = "None"
    /\ sftp_client = "None"
    /\ password = "None"
    /\ use_key_auth = FALSE
    /\ interval_seconds = 0
    /\ image = 0
    /\ temp_files = {}

\* A log whose lines are not known in advance: each read draws any line of
\* Lines, and file is not used.
Init ==
    /\ colunas \in Wanted
    /\ file = <<>>
    /\ InitLocals
    /\ OneCall
    /\ NoSession

\* A return that would hand over what had been collected so far.
ReturnEmpty_KeepsOutputs ==
    /\ pc' = "error"
    /\ UNCHANGED outputs

\* return [], {}, [], [], {}
ReturnEmpty ==
    /\ pc' = "error"
    /\ iterations' = <<>>
    /\ residuals_data' = EmptyDict
    /\ report_iterations' = <<>>
    /\ report_times' = <<>>
    /\ reports_data' = EmptyDict

\* open(filepath) succeeds.
OpenFile ==
    /\ pc = "open"
    /\ pc' = "scan"
    /\ UNCHANGED <<colunas, file, pos, line, outputs, scan_state, caller,
                   session>>

\* open(filepath) raises FileNotFoundError.
FileNotFound ==
    /\ pc = "open"
    /\ ReturnEmpty
    /\ UNCHANGED <<colunas, file, pos, line, scan_state, caller, session>>

\* Reading the open file raises (an OSError of the file object): the outer
\* "except Exception" returns the empty outputs.
ReadError ==
    /\ pc = "scan"
    /\ ReturnEmpty
    /\ UNCHANGED <<colunas, file, pos, line, scan_state, caller, session>>

\* "for line in f" hands over line l, stripped.
Fetch(l) ==
    /\ pc = "scan"
    /\ line' = l
    /\ pos' = pos + 1
    /\ UNCHANGED <<colunas, file, caller, session>>

\* if not line: continue
SkipBlank(l) ==
    /\ Fetch(l)
    /\ IsBlank(l)
    /\ UNCHANGED <<pc, outputs, scan_state>>

\* Mutant of TimeStepLine: the marker starts the data but its time is dropped.
TimeStepLine_KeepsTime(l) ==
    /\ Fetch(l)
    /\ ~IsBlank(l)
    /\ TimeMatch(l) # ""
    /\ IF FloatOf(TimeMatch(l)) = ValueError
       THEN /\ ReturnEmpty
            /\ UNCHANGED scan_state
       ELSE /\ iteration_data_started' = TRUE
            /\ UNCHANGED <<pc, outputs, residual_headers_map, current_time,
                           report_headers_map, header_line_found>>

\* A line the time-step regex matches.
TimeStepLine(l) ==
    /\ Fetch(l)
    /\ ~IsBlank(l)
    /\ TimeMatch(l) # ""
    /\ IF FloatOf(TimeMatch(l)) = ValueError
       THEN /\ ReturnEmpty
            /\ UNCHANGED scan_state
       ELSE /\ current_time' = FloatOf(TimeMatch(l))
            /\ iteration_data_started' = TRUE
            /\ UNCHANGED <<pc, outputs, residual_headers_map,
                           report_headers_map, header_line_found>>

\* A header branch that would add the header's columns to the layouts it
\* has.
HeaderLine_MergesLayouts(l) ==
    /\ Fetch(l)
    /\ ~IsBlank(l)
    /\ TimeMatch(l) = ""
    /\ IsHeader(l, colunas)
    /\ header_line_found' = TRUE
    /\ residual_headers_map' =
          ResidualMapFrom(SplitColumns(l), 1, residual_headers_map)
    /\ report_headers_map' =
          ReportMapFrom(SplitColumns(l), colunas, 1, report_headers_map)
    /\ UNCHANGED <<pc, outputs, current_time, iteration_data_started>>

\* A header line.
HeaderLine(l) ==
    /\ Fetch(l)
    /\ ~IsBlank(l)
    /\ TimeMatch(l) = ""
    /\ IsHeader(l, colunas)
    /\ header_line_found' = TRUE
    /\ residual_headers_map' =
          IF TempResidualMap(SplitColumns(l)) # <<>>
          THEN TempResidualMap(SplitColumns(l))
          ELSE residual_headers_map
    /\ report_headers_map' =
          IF TempReportMap(SplitColumns(l), colunas) # <<>>
          THEN TempReportMap(SplitColumns(l), colunas)
          ELSE report_headers_map
    /\ UNCHANGED <<pc, outputs, current_time, iteration_data_started>>

\* A row body that would append the report values of every row, gated or
\* not.
RowBody_ReportsUngated(values) ==
    IF IntRaises(values[1])
    THEN /\ residuals_data' = ExceptHandler(iterations, residuals_data)
         /\ UNCHANGED <<iterations, report_times, report_iterations, reports_data>>
    ELSE LET its == Append(iterations, IntOf(values[1]))
             res == ResidualLoop(residuals_data, residual_headers_map, values)
             rep == ReportLoop(reports_data, report_headers_map, values)
         IN  /\ iterations' = its
             /\ IF res.raised
                THEN /\ residuals_data' = ExceptHandler(its, res.data)
                     /\ UNCHANGED <<report_times, report_iterations, reports_data>>
                ELSE IF HasReportSample(colunas, report_headers_map, values)
                THEN /\ report_times' = Append(report_times, current_time)
                     /\ report_iterations' =
                           Append(report_iterations, IntOf(values[1]))
                     /\ reports_data' = rep.data
                     /\ residuals_data' =
                           IF rep.raised THEN ExceptHandler(its, res.data)
                                         ELSE res.data
                ELSE /\ residuals_data' = res.data
                     /\ reports_data' = rep.data
                     /\ UNCHANGED <<report_times, report_iterations>>

\* The body of the data-row branch for a row whose first token is all digits.
RowBody(values) ==
    IF IntRaises(values[1])
    THEN /\ residuals_data' = ExceptHandler(iterations, residuals_data)
         /\ UNCHANGED <<iterations, report_times, report_iterations, reports_data>>
    ELSE LET its == Append(iterations, IntOf(values[1]))
             res == ResidualLoop(residuals_data, residual_headers_map, values)
             rep == ReportLoop(reports_data, report_headers_map, values)
         IN  /\ iterations' = its
             /\ IF res.raised
                THEN /\ residuals_data' = ExceptHandler(its, res.data)
                     /\ UNCHANGED <<report_times, report_iterations, reports_data>>
                ELSE IF HasReportSample(colunas, report_headers_map, values)
                THEN /\ report_times' = Append(report_times, current_time)
                     /\ report_iterations' =
                           Append(report_iterations, IntOf(values[1]))
                     /\ reports_data' = rep.data
                     /\ residuals_data' =
                           IF rep.raised THEN ExceptHandler(its, res.data)
                                         ELSE res.data
                ELSE /\ residuals_data' = res.data
                     /\ UNCHANGED <<report_times, report_iterations, reports_data>>

\* A data-row branch that would not wait for a TimeStep marker.
DataRowLine_NoMarkerNeeded(l) ==
    /\ Fetch(l)
    /\ ~IsBlank(l)
    /\ TimeMatch(l) = ""
    /\ ~IsHeader(l, colunas)
    /\ header_line_found /\ LooksLikeRow(l)
    /\ IF ~IsDigit(SplitWhitespace(l)[1])
       THEN UNCHANGED outputs
       ELSE RowBody(SplitWhitespace(l))
    /\ UNCHANGED <<pc, scan_state>>

\* A line taken by the data-row branch.
DataRowLine(l) ==
    /\ Fetch(l)
    /\ ~IsBlank(l)
    /\ TimeMatch(l) = ""
    /\ ~IsHeader(l, colunas)
    /\ header_line_found /\ iteration_data_started /\ LooksLikeRow(l)
    /\ IF ~IsDigit(SplitWhitespace(l)[1])
       THEN UNCHANGED outputs
       ELSE RowBody(SplitWhitespace(l))
    /\ UNCHANGED <<pc, scan_state>>

\* A line no branch takes.
OtherLine(l) ==
    /\ Fetch(l)
    /\ ~IsBlank(l)
    /\ TimeMatch(l) = ""
    /\ ~IsHeader(l, colunas)
    /\ ~(header_line_found /\ iteration_data_started /\ LooksLikeRow(l))
    /\ UNCHANGED <<pc, outputs, scan_state>>

\* The end of the file: the code after the loop.
EndOfInput ==
    /\ pc = "scan"
    /\ pc' = "done"
    /\ residuals_data' = FinalPad(iterations, residuals_data)
    /\ UNCHANGED <<colunas, file, pos, line, iterations, report_times,
                   report_iterations, reports_data, scan_state, caller,
                   session>>

\* The lines the next read may return.
Incoming == IF pos < MaxLines THEN Lines ELSE {}

Next ==
    \/ OpenFile
    \/ FileNotFound
    \/ ReadError
    \/ \E l \in Incoming : SkipBlank(l)
    \/ \E l \in Incoming : TimeStepLine(l)
    \/ \E l \in Incoming : HeaderLine(l)
    \/ \E l \in Incoming : DataRowLine(l)
    \/ \E l \in Incoming : OtherLine(l)
    \/ EndOfInput

Spec == Init /\ [][Next]_vars

(***************************************************************************)
(* The same parser on logs made of headers of every kind, with a marker, a *)
(* row and other lines between them.                                       *)
(***************************************************************************)

HeaderStudyLines ==
    {Blank, MarkerA, HeaderSingle, HeaderRes, HeaderFull, HeaderAlt,
     HeaderReportsOnly, HeaderCoeff, RowFull, Noise}

IncomingHeaders == IF pos < MaxLines THEN HeaderStudyLines ELSE {}

NextHeaders ==
    \/ OpenFile
    \/ FileNotFound
    \/ ReadError
    \/ \E l \in IncomingHeaders : SkipBlank(l)
    \/ \E l \in IncomingHeaders : TimeStepLine(l)
    \/ \E l \in IncomingHeaders : HeaderLine(l)
    \/ \E l \in IncomingHeaders : DataRowLine(l)
    \/ \E l \in IncomingHeaders : OtherLine(l)
    \/ EndOfInput

SpecHeaders == Init /\ [][NextHeaders]_vars


(***************************************************************************)
(* The same parser on a log fixed in advance.                              *)
(***************************************************************************)

FileLines == {Blank, MarkerA, HeaderSingle, HeaderRes, RowA}

RECURSIVE SeqsUpTo(_, _)
SeqsUpTo(S, n) ==
    IF n = 0 THEN {<<>>}
    ELSE LET shorter == SeqsUpTo(S, n - 1)
         IN  shorter \cup {Append(f, x) : f \in {g \in shorter : Len(g) = n - 1},
                                          x \in S}

\* Logs of Scenario B: a marker, a header of residual fields only, one or two
\* rows, a header that adds the report columns, one or two rows with report
\* tokens.
ScenarioBFiles ==
    {<<MarkerA, HeaderRes>> \o before \o <<HeaderFull>> \o after :
        before \in SeqsUpTo({RowA, RowFull}, 2) \ {<<>>},
        after \in SeqsUpTo({RowFull}, 2) \ {<<>>}}

Files == SeqsUpTo(FileLines, MaxFileLen) \cup ScenarioBFiles

InitFile ==
    /\ colunas \in Wanted
    /\ file \in Files
    /\ InitLocals
    /\ OneCall
    /\ NoSession

\* The line the next read returns, if any.
IncomingFile == IF pos < Len(file) THEN {file[pos + 1]} ELSE {}

NextFile ==
    \/ OpenFile
    \/ FileNotFound
    \/ ReadError
    \/ \E l \in IncomingFile : SkipBlank(l)
    \/ \E l \in IncomingFile : TimeStepLine(l)
    \/ \E l \in IncomingFile : HeaderLine(l)
    \/ \E l \in IncomingFile : DataRowLine(l)
    \/ \E l \in IncomingFile : OtherLine(l)
    \/ (pos = Len(file) /\ EndOfInput)

SpecFile == InitFile /\ [][NextFile]_vars

(***************************************************************************)
(* Two calls of the parser on the same log with the same requested         *)
(* fields.  The second call starts when the first has returned; the        *)
(* caller keeps what the first call returned.                              *)
(***************************************************************************)

\* The function is entered again: its locals are created anew.
EnterFunction ==
    /\ pos' = 0
    /\ line' = Blank
    /\ pc' = "open"
    /\ iterations' = <<>>
    /\ report_times' = <<>>
    /\ report_iterations' = <<>>
    /\ residuals_data' = [f \in ResidualFields |-> <<>>]
    /\ reports_data' = [f \in Range(colunas) |-> <<>>]
    /\ residual_headers_map' = <<>>
    /\ report_headers_map' = <<>>
    /\ current_time' = "0.0"
    /\ header_line_found' = FALSE
    /\ iteration_data_started' = FALSE

\* A second call that would find the time and the two flags as the first
\* call left them.
CallAgain_KeepsScanState ==
    /\ pc \in {"done", "error"}
    /\ call = 1
    /\ call' = 2
    /\ first_result' = [pc |-> pc, result |-> outputs]
    /\ pos' = 0
    /\ line' = Blank
    /\ pc' = "open"
    /\ iterations' = <<>>
    /\ report_times' = <<>>
    /\ report_iterations' = <<>>
    /\ residuals_data' = [f \in ResidualFields |-> <<>>]
    /\ reports_data' = [f \in Range(colunas) |-> <<>>]
    /\ residual_headers_map' = <<>>
    /\ report_headers_map' = <<>>
    /\ UNCHANGED <<colunas, file, current_time, header_line_found,
                   iteration_data_started, session>>

\* The second call.
CallAgain ==
    /\ pc \in {"done", "error"}
    /\ call = 1
    /\ call' = 2
    /\ first_result' = [pc |-> pc, result |-> outputs]
    /\ EnterFunction
    /\ UNCHANGED <<colunas, file, session>>

NextTwice ==
    \/ OpenFile
    \/ FileNotFound
    \/ ReadError
    \/ \E l \in IncomingFile : SkipBlank(l)
    \/ \E l \in IncomingFile : TimeStepLine(l)
    \/ \E l \in IncomingFile : HeaderLine(l)
    \/ \E l \in IncomingFile : DataRowLine(l)
    \/ \E l \in IncomingFile : OtherLine(l)
    \/ (pos = Len(file) /\ EndOfInput)
    \/ CallAgain

SpecTwice == InitFile /\ [][NextTwice]_vars

(***************************************************************************)
(* monitor_simulation: the polling loop.  mpc is the position in the loop  *)
(* body; error is the exception raised in the cycle's try, "none" when     *)
(* there is none.  ssh_client and sftp_client are "None", or the state of  *)
(* the object they hold.  temp_files holds "log" for                       *)
(* temp_downloaded_logfile.log and a scene's name for its                  *)
(* temp_image_<name>.png.  The parser runs inside the cycle on the lines   *)
(* that were downloaded.                                                   *)
(***************************************************************************)

\* The contents the remote log may have when it is downloaded.
RemoteLogs ==
    {<<>>,
     <<Blank, MarkerA, HeaderRes, RowA, Noise>>,
     <<MarkerA, HeaderFull, RowFull>>}

\* image_subfolders, in the order of the loop.
Scenes == <<"pressure", "velocity">>

\* What getpass may return.
Typed == {"", "secret"}

\* The values of interval_seconds: -i takes any integer.
Intervals == {-1, 0, 5}

\* Before the first cycle the parser has not been called.
NotCalled ==
    /\ pos = 0
    /\ line = Blank
    /\ pc = "idle"
    /\ iterations = <<>>
    /\ report_times = <<>>
    /\ report_iterations = <<>>
    /\ residuals_data = [f \in ResidualFields |-> <<>>]
    /\ reports_data = [f \in Range(colunas) |-> <<>>]
    /\ residual_headers_map = <<>>
    /\ report_headers_map = <<>>
    /\ current_time = "0.0"
    /\ header_line_found = FALSE
    /\ iteration_data_started = FALSE

InitMonitor ==
    /\ colunas \in Wanted
    /\ file = <<>>
    /\ NotCalled
    /\ OneCall
    /\ mpc = "loop"
    /\ error = "none"
    /\ ssh_client = "None"
    /\ sftp_client = "None"
    /\ password \in {"None", "secret"}
    /\ use_key_auth \in BOOLEAN
    /\ interval_seconds \in Intervals
    /\ image = 0
    /\ temp_files = {}

parser_vars == <<colunas, file, pos, line, pc, outputs, scan_state, caller>>

\* An exception is raised inside the try: control goes to the except
\* clauses.
Raise(e) ==
    /\ mpc' = "finally"
    /\ error' = e

\* An except clause that would never leave the loop.
ExceptClause_NeverBreaks(e) == "continue"

\* The except clauses: the one for AuthenticationException ends with break.
ExceptClause(e) == IF e = "auth" THEN "break" ELSE "continue"

\* while True: ssh_client, sftp_client = None, None
BeginCycle ==
    /\ mpc = "loop"
    /\ mpc' = "connect"
    /\ ssh_client' = "None"
    /\ sftp_client' = "None"
    /\ UNCHANGED <<parser_vars, error, password, use_key_auth,
                   interval_seconds, image,
                   temp_files>>

\* The client is created and connect is called, with the key or with the
\* password; the password is asked for when there is none, and getpass may
\* raise instead of returning one.  When connect raises, the client may
\* already hold an open transport.
Connect ==
    /\ mpc = "connect"
    /\ \/ /\ ~use_key_auth /\ password \in {"None", ""}
          /\ password' = password
          /\ ssh_client' = "new"
          /\ Raise("other")
       \/ /\ \E typed \in Typed :
                password' = IF ~use_key_auth /\ password \in {"None", ""}
                            THEN typed ELSE password
          /\ \E outcome \in {"ok", "auth", "ssh", "fnf", "other"} :
                IF outcome = "ok"
                THEN /\ ssh_client' = "connected"
                     /\ mpc' = "sftp"
                     /\ error' = error
                ELSE /\ ssh_client' \in {"new", "connected"}
                     /\ Raise(outcome)
    /\ UNCHANGED <<parser_vars, sftp_client, use_key_auth, interval_seconds,
                   image, temp_files>>

\* sftp_client = ssh_client.open_sftp()
OpenSftp ==
    /\ mpc = "sftp"
    /\ \/ /\ sftp_client' = "open"
          /\ mpc' = "download"
          /\ error' = error
       \/ /\ sftp_client' = sftp_client
          /\ \E e \in {"ssh", "other"} : Raise(e)
    /\ UNCHANGED <<parser_vars, ssh_client, password, use_key_auth,
                   interval_seconds, image,
                   temp_files>>

\* sftp_client.get succeeds and the parser is called on the local copy.
DownloadLog ==
    /\ mpc = "download"
    /\ \E f \in RemoteLogs : file' = f
    /\ temp_files' = temp_files \cup {"log"}
    /\ mpc' = "parse"
    /\ EnterFunction
    /\ UNCHANGED <<colunas, caller, error, ssh_client, sftp_client, password,
                   use_key_auth, interval_seconds, image>>

\* sftp_client.get raises; the local copy may have been created already.
DownloadFails ==
    /\ mpc = "download"
    /\ \E e \in {"fnf", "ssh", "other"} : Raise(e)
    /\ temp_files' \in {temp_files, temp_files \cup {"log"}}
    /\ UNCHANGED <<parser_vars, ssh_client, sftp_client, password,
                   use_key_auth, interval_seconds, image>>

\* The parser has returned: if not iterations ... else plot_data(...)
AfterParse ==
    /\ mpc = "parse"
    /\ pc \in {"done", "error"}
    /\ mpc' = IF iterations = <<>> THEN "finally" ELSE "plot"
    /\ UNCHANGED <<parser_vars, error, ssh_client, sftp_client, password,
                   use_key_auth, interval_seconds, image, temp_files>>

\* plot_data up to the loop over the scenes: the directory and the two
\* upper plots.
PlotStart ==
    /\ mpc = "plot"
    /\ \/ /\ mpc' = "image"
          /\ image' = 1
          /\ error' = error
       \/ /\ image' = image
          /\ \E e \in {"fnf", "other"} : Raise(e)
    /\ UNCHANGED <<parser_vars, ssh_client, sftp_client, password,
                   use_key_auth, interval_seconds, temp_files>>

\* One turn of the loop over the scenes: no image is found; or the
\* download raises; or the image is downloaded and reading it raises; or it
\* is read, shown and its local copy removed.
SceneImage ==
    /\ mpc = "image"
    /\ image \in 1..Len(Scenes)
    /\ \E outcome \in {"none", "get fails", "read fails", "shown"} :
          CASE outcome = "none" -> temp_files' = temp_files
            [] outcome = "get fails" ->
                  temp_files' \in {temp_files,
                                   temp_files \cup {Scenes[image]}}
            [] outcome = "read fails" ->
                  temp_files' = temp_files \cup {Scenes[image]}
            [] outcome = "shown" ->
                  temp_files' = temp_files \ {Scenes[image]}
    /\ image' = image + 1
    /\ UNCHANGED <<parser_vars, mpc, error, ssh_client, sftp_client,
                   password, use_key_auth, interval_seconds>>

\* plot_data after the loop: the layout, the saved figure, the close.
PlotEnd ==
    /\ mpc = "image"
    /\ image = Len(Scenes) + 1
    /\ image' = 0
    /\ \/ /\ mpc' = "finally"
          /\ error' = error
       \/ Raise("other")
    /\ UNCHANGED <<parser_vars, ssh_client, sftp_client, password,
                   use_key_auth, interval_seconds, temp_files>>

\* A finally clause that would close nothing when the loop is left by
\* break.
Finally_NoCloseOnBreak ==
    /\ mpc = "finally"
    /\ sftp_client' = IF sftp_client = "None" \/ error = "auth"
                      THEN sftp_client ELSE "closed"
    /\ ssh_client' = IF ssh_client = "None" \/ error = "auth"
                     THEN ssh_client ELSE "closed"
    /\ mpc' = IF error # "none" /\ ExceptClause(error) = "break"
              THEN "exited" ELSE "sleep"
    /\ error' = "none"
    /\ UNCHANGED <<parser_vars, password, use_key_auth, interval_seconds,
                   image, temp_files>>

\* The except clause of the exception raised, if any, then the finally
\* clause, then the break or the rest of the loop body.
Finally ==
    /\ mpc = "finally"
    /\ sftp_client' = IF sftp_client = "None" THEN "None" ELSE "closed"
    /\ ssh_client' = IF ssh_client = "None" THEN "None" ELSE "closed"
    /\ mpc' = IF error # "none" /\ ExceptClause(error) = "break"
              THEN "exited" ELSE "sleep"
    /\ error' = "none"
    /\ UNCHANGED <<parser_vars, password, use_key_auth, interval_seconds,
                   image, temp_files>>

\* time.sleep(interval_seconds): a negative length raises ValueError, and
\* the call is outside the try, so the function is left by the exception.
Sleep ==
    /\ mpc = "sleep"
    /\ IF interval_seconds < 0
       THEN /\ mpc' = "exited"
            /\ error' = "uncaught"
       ELSE /\ mpc' = "loop"
            /\ error' = error
    /\ UNCHANGED <<parser_vars, ssh_client, sftp_client, password,
                   use_key_auth, interval_seconds, image, temp_files>>

NextMonitor ==
    \/ BeginCycle
    \/ Connect
    \/ OpenSftp
    \/ DownloadLog
    \/ DownloadFails
    \/ OpenFile
    \/ FileNotFound
    \/ ReadError
    \/ \E l \in IncomingFile : SkipBlank(l)
    \/ \E l \in IncomingFile : TimeStepLine(l)
    \/ \E l \in IncomingFile : HeaderLine(l)
    \/ \E l \in IncomingFile : DataRowLine(l)
    \/ \E l \in IncomingFile : OtherLine(l)
    \/ (pos = Len(file) /\ EndOfInput)
    \/ AfterParse
    \/ PlotStart
    \/ SceneImage
    \/ PlotEnd
    \/ Finally
    \/ Sleep

SpecMonitor == InitMonitor /\ [][NextMonitor]_vars

\* The loop body always goes on: every call it makes returns or raises.
SpecMonitorFair == SpecMonitor /\ WF_vars(NextMonitor)

(***************************************************************************)
(* Properties.                                                             *)
(***************************************************************************)

Last(seq) == seq[Len(seq)]

\* seq is a prefix of longer.
IsPrefix(seq, longer) ==
    /\ Len(seq) <= Len(longer)
    /\ \A k \in 1..Len(seq) : longer[k] = seq[k]

\* C1: when the scan reaches the end of input, each of the seven residual
\* fields has exactly len(iterations) values.
C1_ResidualLengths ==
    pc = "done" =>
        \A f \in ResidualFields :
            /\ f \in DOMAIN residuals_data
            /\ Len(residuals_data[f]) = Len(iterations)

\* C1 witness: a finished scan of two rows where a field the header listed
\* holds values and a field no header listed was padded.
C1_Witness ==
    /\ pc = "done"
    /\ Len(iterations) = 2
    /\ residuals_data["Continuity"] = <<"0.001", "0.002">>
    /\ residuals_data["Sdr"] = <<NaN, NaN>>

\* C2 (as claimed): at the end of the scan report_iterations, report_times
\* and the sequence of every requested report field have the same length.
C2_ReportLengths ==
    pc = "done" =>
        /\ Len(report_iterations) = Len(report_times)
        /\ \A f \in Range(colunas) : Len(reports_data[f]) = Len(report_times)

\* A step that read a line and went on scanning; line' is the line read.
ReadStep == pc = "scan" /\ pc' = "scan" /\ pos' = pos + 1

\* Tokens that are a non-negative integer.
IntegerTokens == {"1", "2", "3", "4", "5", "6"}

\* The line just read went through the data-row branch and its first token
\* is a valid iteration number.
AcceptedRow ==
    /\ ReadStep
    /\ header_line_found /\ iteration_data_started
    /\ ~IsBlank(line')
    /\ TimeMatch(line') = ""
    /\ ~IsHeader(line', colunas)
    /\ line'.toks[1] \in IntegerTokens

\* The token of the line just read at 0-based column col is there and
\* parses as a float.
Parses(col) ==
    col < Len(line'.toks) /\ FloatOf(line'.toks[col + 1]) # ValueError

\* The report layout has a column for the gating field and the line just
\* read has a token there that is not the placeholder.
GatingTokenPresent ==
    /\ colunas # <<>>
    /\ \E i \in 1..Len(report_headers_map) :
          /\ report_headers_map[i].name = colunas[1]
          /\ report_headers_map[i].col < Len(line'.toks)
          /\ line'.toks[report_headers_map[i].col + 1] \notin {"---", ""}

\* No residual token of the line just read, and no report token of a row
\* that yields a sample, raises a numeric error.
NoNumericError ==
    /\ \A i \in 1..Len(residual_headers_map) :
          residual_headers_map[i].col < Len(line'.toks)
              => Parses(residual_headers_map[i].col)
    /\ GatingTokenPresent =>
          \A i \in 1..Len(report_headers_map) :
              report_headers_map[i].col < Len(line'.toks)
                  => Parses(report_headers_map[i].col)

\* C3 (as claimed): a residual value is stored at the index of the row it
\* was read from: whenever a step appends a value other than NaN to the
\* sequence of field f, that value is the float of the token at f's column
\* in the line just read and it lands at the index that line has in
\* iterations.
C3_ResidualsAligned ==
    [][\A f \in ResidualFields :
          (/\ ReadStep
           /\ Len(residuals_data'[f]) > Len(residuals_data[f])
           /\ Last(residuals_data'[f]) # NaN)
          => /\ Len(iterations') = Len(iterations) + 1
             /\ Len(residuals_data'[f]) = Len(iterations')
             /\ HasKey(residual_headers_map, f)
             /\ Last(residuals_data'[f]) =
                   FloatOf(line'.toks[Lookup(residual_headers_map, f) + 1])]_vars

\* C4 (as claimed): in an accepted row a token that is not a float costs
\* only its own field: every residual field whose token parses gets that
\* value, and the row yields its report sample when the gating token is
\* present.
C4_OnlyOneFieldDegrades ==
    [][AcceptedRow =>
          /\ \A i \in 1..Len(residual_headers_map) :
                LET e == residual_headers_map[i]
                IN  Parses(e.col) =>
                       /\ Len(residuals_data'[e.name]) > Len(residuals_data[e.name])
                       /\ residuals_data'[e.name][Len(residuals_data[e.name]) + 1]
                             = FloatOf(line'.toks[e.col + 1])
          /\ GatingTokenPresent =>
                Len(report_iterations') = Len(report_iterations) + 1]_vars

\* C5 (as claimed): no line aborts the scan: when a line is read, whatever
\* the line is, the scan goes on and the rows already in iterations stay
\* there.  A step in which reading the file itself raises reads no line
\* and is not concerned.
C5_ScanNeverAborts ==
    [][(pc = "scan" /\ pos' = pos + 1) =>
          /\ pc' = "scan"
          /\ IsPrefix(iterations, iterations')]_vars

\* C6 (as claimed): a line that is neither a time-step marker nor a header
\* and whose first token is not a non-negative integer changes no output
\* sequence, layout, flag or the current time.
C6_NoiseChangesNothing ==
    [][(/\ pc = "scan"
        /\ pos' = pos + 1
        /\ ~IsBlank(line')
        /\ TimeMatch(line') = ""
        /\ ~IsHeader(line', colunas)
        /\ line'.toks[1] \notin IntegerTokens)
       => UNCHANGED <<outputs, scan_state, pc>>]_vars

\* C7: an accepted row with fewer tokens than the column of some residual
\* field of the layout, and whose tokens all parse, is kept: its iteration
\* is appended, each residual field with a column inside the row gets the
\* float of its token and each residual field with a column beyond the row
\* gets NaN.
C7_ShortRowPadded ==
    [][(/\ AcceptedRow
        /\ NoNumericError
        /\ \E i \in 1..Len(residual_headers_map) :
              residual_headers_map[i].col >= Len(line'.toks))
       => /\ iterations' = Append(iterations, IntOf(line'.toks[1]))
          /\ \A i \in 1..Len(residual_headers_map) :
                LET e == residual_headers_map[i]
                IN  residuals_data'[e.name] =
                       Append(residuals_data[e.name],
                              IF e.col < Len(line'.toks)
                              THEN FloatOf(line'.toks[e.col + 1])
                              ELSE NaN)]_vars

\* C7 witness: the two-token row "5 1.0e-3" was read under the layout
\* Continuity, X-momentum: Continuity got 0.001 and X-momentum got NaN.
C7_Witness ==
    /\ pc = "scan"
    /\ line = RowShort
    /\ iterations # <<>> /\ Last(iterations) = 5
    /\ residual_headers_map =
          <<[name |-> "Continuity", col |-> 1], [name |-> "X-momentum", col |-> 2]>>
    /\ Len(residuals_data["Continuity"]) = Len(iterations)
    /\ Last(residuals_data["Continuity"]) = "0.001"
    /\ Len(residuals_data["X-momentum"]) = Len(iterations)
    /\ Last(residuals_data["X-momentum"]) = NaN

\* C8: a step appends to the report sequences only for a row whose gating
\* token is present; a row whose gating token is "---" or absent leaves
\* the report sequences and the report layout alone; and in every state an
\* accepted row with a present gating token and no numeric error yields a
\* sample, whatever rows came before.
C8_Gating ==
    [][pc = "scan" =>
          /\ <<report_iterations, report_times, reports_data>>'
                # <<report_iterations, report_times, reports_data>>
             => (pc' = "error" \/ (AcceptedRow /\ GatingTokenPresent))
          /\ (AcceptedRow /\ ~GatingTokenPresent)
             => UNCHANGED <<report_iterations, report_times, reports_data,
                            report_headers_map, colunas>>
          /\ (AcceptedRow /\ GatingTokenPresent /\ NoNumericError)
             => /\ report_iterations' =
                      Append(report_iterations, IntOf(line'.toks[1]))
                /\ Len(report_times') = Len(report_times) + 1]_vars

\* C8 witness: row 3, whose gating token is "---", gave no sample and the
\* next row, 2, gave one.
C8_Witness ==
    /\ pc = "scan"
    /\ line = RowFull
    /\ iterations = <<3, 2>>
    /\ report_iterations = <<2>>
    /\ colunas # <<>>
    /\ reports_data[colunas[1]] # <<>>

\* C9: the time of a report sample is the time captured by the most recent
\* marker: a marker line sets the current time to the float of its captured
\* text and appends to no output sequence, no other line changes the
\* current time, a sample's time is the current time, and entries of
\* report_times never change afterwards.
C9_TimeAssociation ==
    [][(pc = "scan" /\ pc' # "error") =>
          /\ (pos' = pos + 1 /\ TimeMatch(line') # "")
             => /\ UNCHANGED outputs
                /\ current_time' = FloatOf(TimeMatch(line'))
          /\ ~(pos' = pos + 1 /\ TimeMatch(line') # "")
             => current_time' = current_time
          /\ IsPrefix(report_times, report_times')
          /\ Len(report_times') <= Len(report_times) + 1
          /\ Len(report_times') > Len(report_times)
             => Last(report_times') = current_time]_vars

\* C9 witness: two samples taken after two different markers.
C9_Witness ==
    /\ pc = "scan"
    /\ report_times = <<"0.5", "1.5">>
    /\ Len(report_iterations) = 2

\* Scenario A as written: one blank between the header's names.
ScenarioA == <<MarkerA, HeaderSingle, RowA>>

\* Scenario A with the header's names two blanks apart.
ScenarioA_TwoBlanks == <<MarkerA, HeaderRes, RowA>>

\* The result Scenario A states.
ScenarioA_Result ==
    /\ iterations = <<1>>
    /\ residuals_data =
          [f \in ResidualFields |->
              CASE f = "Continuity" -> <<"0.001">>
                [] f = "X-momentum" -> <<"0.002">>
                [] OTHER -> <<NaN>>]
    /\ report_iterations = <<>>
    /\ report_times = <<>>
    /\ reports_data = EmptyDict

\* C10 (as claimed): Scenario A as written returns iterations = [1],
\* Continuity = [0.001], X-momentum = [0.002], NaN for the other residual
\* fields and empty report sequences.
C10_ScenarioA_AsWritten ==
    (pc = "done" /\ file = ScenarioA /\ colunas = <<>>) => ScenarioA_Result

\* C10 (amended): with the header's names two or more blanks apart the
\* result is the one stated; with the header as written the header is one
\* column, no layout is recorded and every residual field is [NaN].
C10_ScenarioA ==
    /\ (pc = "done" /\ file = ScenarioA_TwoBlanks /\ colunas = <<>>)
       => ScenarioA_Result
    /\ (pc = "done" /\ file = ScenarioA /\ colunas = <<>>)
       => /\ iterations = <<1>>
          /\ residuals_data = [f \in ResidualFields |-> <<NaN>>]
          /\ report_iterations = <<>>
          /\ report_times = <<>>
          /\ reports_data = EmptyDict

\* C10 witness: Scenario A with two blanks was parsed to its end.
C10_Witness ==
    /\ pc = "done"
    /\ file = ScenarioA_TwoBlanks
    /\ colunas = <<>>
    /\ iterations = <<1>>

\* The rows of a Scenario B log before (first = TRUE) or after its second
\* header.
ScenarioBRows(f, first) ==
    LET second == CHOOSE i \in 3..Len(f) : f[i] = HeaderFull
    IN  IF first THEN SubSeq(f, 3, second - 1) ELSE SubSeq(f, second + 1, Len(f))

\* C11 (as claimed): Scenario B parsed with the report fields requested:
\* the rows before the second header are in iterations with their residual
\* values and give no report sample, the rows after it are in iterations
\* with their residual values and each gives a report sample.
C11_ScenarioB ==
    (pc = "done" /\ file \in ScenarioBFiles /\ colunas # <<>>) =>
        LET rows == ScenarioBRows(file, TRUE) \o ScenarioBRows(file, FALSE)
            after == ScenarioBRows(file, FALSE)
        IN  /\ iterations = [i \in 1..Len(rows) |-> IntOf(rows[i].toks[1])]
            /\ residuals_data["Continuity"] =
                  [i \in 1..Len(rows) |-> FloatOf(rows[i].toks[2])]
            /\ residuals_data["X-momentum"] =
                  [i \in 1..Len(rows) |-> FloatOf(rows[i].toks[3])]
            /\ report_iterations =
                  [i \in 1..Len(after) |-> IntOf(after[i].toks[1])]
            /\ report_times = [i \in 1..Len(after) |-> "0.5"]
            /\ reports_data["Drag"] =
                  [i \in 1..Len(after) |-> FloatOf(after[i].toks[4])]
            /\ reports_data["Lift"] =
                  [i \in 1..Len(after) |-> FloatOf(after[i].toks[5])]

\* C12: when the parser is called a second time on the same lines with the
\* same requested fields, and the file is found by both calls or by
\* neither, the second call returns the five outputs the first returned
\* (NaN equal to NaN), whatever the first call left behind.
C12_SameResultTwice ==
    (call = 2 /\ pc \in {"done", "error"} /\ first_result.pc = pc) =>
        outputs = first_result.result

\* A second call has returned rows, as the first had.
C12_Witness ==
    /\ call = 2
    /\ pc = "done"
    /\ first_result.pc = "done"
    /\ Len(iterations) >= 2
    /\ \E i \in 1..Len(iterations) : residuals_data["Tke"][i] = NaN

\* Nothing is returned: no row, no sample, no residual or report value.
NothingReturned ==
    /\ iterations = <<>>
    /\ report_iterations = <<>>
    /\ report_times = <<>>
    /\ \A f \in DOMAIN residuals_data : residuals_data[f] = <<>>
    /\ \A f \in DOMAIN reports_data : reports_data[f] = <<>>

\* C13: the parser returns on every path.  When the file is missing, when
\* reading it raises, or when it holds no line, what is returned has no
\* row, no report sample and no value in any residual or report sequence.
C13_EmptyOnFailure ==
    /\ pc \in {"open", "scan", "done", "error"}
    /\ (pc = "error" \/ (pc = "done" /\ pos = 0)) => NothingReturned

\* The file was read as far as a row and then reading raised.
C13_Witness ==
    /\ pc = "error"
    /\ pos >= 3
    /\ header_line_found
    /\ line = RowFull

\* C14: when the connection attempt of a cycle has raised an
\* authentication failure, the next step of the loop is its exit, without
\* the interval wait; and once the loop has exited nothing starts again.
C14_AuthFailureExits ==
    [][/\ (mpc = "finally" /\ error = "auth") => mpc' = "exited"
       /\ mpc = "exited" => mpc' = "exited"]_vars

\* The loop has exited by the break, after a cycle that had downloaded and
\* parsed rows.
C14_Witness ==
    /\ mpc = "exited"
    /\ error = "none"
    /\ ssh_client = "closed"
    /\ iterations # <<>>

\* C15 (as claimed): when a cycle has raised an exception that is not an
\* authentication failure (an SSH error, a file not found, any other
\* exception), the loop does not exit: after the interval wait a new cycle
\* begins with a new connection attempt.
C15_OtherFailureRetries ==
    (mpc = "finally" /\ error \in {"ssh", "fnf", "other"}) ~> (mpc = "connect")

\* C16 (as claimed): when a cycle is over, at the interval wait or at the
\* exit of the loop, no temporary local copy exists, neither the downloaded
\* log nor a scene image.
C16_NoTempFilesLeft ==
    mpc \in {"sleep", "exited"} => temp_files = {}

\* The layout d maps exactly the given names, each to the 0-based column
\* of the header cell that is the name.
LayoutIs(d, cells, names) ==
    /\ {d[i].name : i \in 1..Len(d)} = names
    /\ Len(d) = Cardinality(names)
    /\ \A i \in 1..Len(d) : cells[d[i].col + 1] = d[i].name

\* C17: on a recognized header line, each of the two layouts is handled on
\* its own: if a column of the header is one of the layout's names, the
\* layout becomes the mapping of this header's matching columns and nothing
\* else; if none is, the layout is as before.  header_line_found is true
\* afterwards and no output changes.
C17_HeaderUpdatesLayouts ==
    [][(ReadStep /\ TimeMatch(line') = "" /\ IsHeader(line', colunas)) =>
          LET cells == SplitColumns(line')
              resNames == Range(cells) \cap ResidualFields
              repNames == Range(cells) \cap Range(colunas)
          IN  /\ header_line_found'
              /\ outputs' = outputs
              /\ IF resNames = {}
                 THEN residual_headers_map' = residual_headers_map
                 ELSE LayoutIs(residual_headers_map', cells, resNames)
              /\ IF repNames = {}
                 THEN report_headers_map' = report_headers_map
                 ELSE LayoutIs(report_headers_map', cells, repNames)]_vars

\* A header with a residual column and no report column has been read when
\* both layouts had two entries: the residual layout is the new one, the
\* report layout is the old one.
C17_Witness ==
    /\ pc = "scan"
    /\ line = HeaderCoeff
    /\ colunas = <<"Drag", "Lift">>
    /\ Len(residual_headers_map) = 1
    /\ Len(report_headers_map) = 2
    /\ iterations # <<>>

\* C18: a line read while a header or a TimeStep marker is still missing
\* changes no output; a line read when both have been seen and whose first
\* token is a non-negative integer appends that integer to iterations; and
\* a flag that is true stays true.
C18_RowsNeedBothFlags ==
    [][ReadStep =>
          /\ ~(header_line_found /\ iteration_data_started)
                => outputs' = outputs
          /\ (/\ header_line_found /\ iteration_data_started
              /\ ~IsBlank(line')
              /\ line'.toks[1] \in IntegerTokens)
                => iterations' = Append(iterations, IntOf(line'.toks[1]))
          /\ header_line_found => header_line_found'
          /\ iteration_data_started => iteration_data_started']_vars

\* A row read after a header and a marker has been appended, and it is the
\* only row in iterations among the four lines read.
C18_Witness ==
    /\ pc = "scan"
    /\ pos = 4
    /\ line = RowA
    /\ header_line_found /\ iteration_data_started
    /\ iterations = <<1>>
    /\ residuals_data["Continuity"] = <<"0.001">>

\* C19 (as claimed): when a row has been abandoned because one of its
\* fields raised a numeric error, every residual field of the current
\* layout has len(iterations) entries before the next line is read.
C19_AbandonedRowPadded ==
    [][(AcceptedRow /\ ~NoNumericError) =>
          \A i \in 1..Len(residual_headers_map) :
              Len(residuals_data'[residual_headers_map[i].name])
                  = Len(iterations')]_vars

\* s can be obtained from t by leaving elements out.
RECURSIVE IsSubsequence(_, _)
IsSubsequence(s, t) ==
    IF s = <<>> THEN TRUE
    ELSE IF t = <<>> THEN FALSE
    ELSE IF Head(s) = Head(t) THEN IsSubsequence(Tail(s), Tail(t))
    ELSE IsSubsequence(s, Tail(t))

\* C20: after every line, and at the return, report_iterations and
\* report_times have the same length, no report field has more values than
\* there are samples, and report_iterations is a subsequence of iterations,
\* so it is not longer.
C20_ReportSamplesConsistent ==
    /\ Len(report_iterations) = Len(report_times)
    /\ \A f \in DOMAIN reports_data :
          Len(reports_data[f]) <= Len(report_iterations)
    /\ IsSubsequence(report_iterations, iterations)
    /\ Len(report_iterations) <= Len(iterations)

\* Rows with and without a sample have been read, and a requested field
\* has fewer values than there are samples.
C20_Witness ==
    /\ pc = "scan"
    /\ Len(report_iterations) >= 2
    /\ Len(iterations) > Len(report_iterations)
    /\ report_iterations[1] # iterations[1]
    /\ \E f \in DOMAIN reports_data :
          Len(reports_data[f]) < Len(report_iterations)

\* C21: at the interval wait, at the top of the next turn of the loop and
\* after the exit of the loop, no SSH client holds an open connection and
\* no SFTP client is open: what a cycle opened, it closed, on every path.
C21_ConnectionsClosed ==
    mpc \in {"sleep", "loop", "exited"} =>
        /\ ssh_client \in {"None", "closed"}
        /\ sftp_client \in {"None", "closed"}

\* The loop has exited on an authentication failure of a cycle that came
\* after a cycle with rows: the client of the failed attempt is closed and
\* no SFTP client was opened in that cycle.
C21_Witness ==
    /\ mpc = "exited"
    /\ error = "none"
    /\ ssh_client = "closed"
    /\ sftp_client = "None"
    /\ "log" \in temp_files

=============================================================================
